---- MODULE Spec2Model ----
(***************************************************************************)
(* The request layer of tmdbhelper/lib/api/request.py: ConnectionPool,     *)
(* RequestMemoryCache, RateLimiter and RequestAPI.request, which composes  *)
(* them, and NoCacheRequestAPI; the ratings queue of the list item monitor *)
(* (monitor/listitemtools.py) and PlayerScrobbler (monitor/scrobbler.py).  *)
(* Time is counted in ticks of 1/TicksPerSec second.                       *)
(*                                                                         *)
(* The specifications share the variables:                                 *)
(*   Spec      threads running RequestAPI.request concurrently;            *)
(*   SpecRace  the same threads with a sustained rate of one per second;   *)
(*   SpecBusy  the same, in a process that has served one request before;  *)
(*   SpecHosts the same, with calls for two hosts;                         *)
(*   SpecSerial  RequestAPI.request called by one caller at a time;        *)
(*   SpecNoCache the threads also calling NoCacheRequestAPI.request;       *)
(*   SpecCache direct calls of RequestMemoryCache.get / set / clear;       *)
(*   SpecWide  the same with room for three entries;                       *)
(*   SpecRate  direct calls of RateLimiter.wait_if_needed/record_request;  *)
(*   SpecPool  direct calls of ConnectionPool.get_session/return_session;  *)
(*   SpecKey   direct calls of RequestMemoryCache._generate_key;           *)
(*   SpecSingleton  threads constructing ConnectionPool concurrently;      *)
(*   SpecRatings    threads calling start_process_ratings concurrently,    *)
(*                  and SpecRatingsLive, the same with fair scheduling;    *)
(*   SpecScrobbler  calls of start, pause, stop and update_time on one     *)
(*                  PlayerScrobbler.                                       *)
(***************************************************************************)
EXTENDS Integers, Sequences, FiniteSets, TLC

VARIABLES
    cfg,                 \* the settings read by get_setting, and the transport's session type
    pools,               \* ConnectionPool.pools: host -> list of idle sessions
    active_connections,  \* ConnectionPool.active_connections: host -> int
    closed,              \* sessions on which close() has been called
    next_session,        \* identity of the next requests.Session() object
    held,                \* <<host, session>> pairs checked out by direct callers of the pool
    cache,               \* RequestMemoryCache.cache: OrderedDict, oldest first
    timestamps,          \* RequestMemoryCache.timestamps: key -> insertion time
    request_times,       \* RateLimiter.request_times: host -> list of times
    now,                 \* time.time(), in ticks
    ticks,               \* number of clock advances so far
    thr,                 \* per thread: position in RequestAPI.request and its locals
    dispatches,          \* number of RequestAPI.request calls started so far
    last,                \* history: the last completed dispatch, when it ran alone
    pool_hist,           \* history: per host, outcomes of get_session / return_session
    lru,                 \* history: cached keys by last access (insert or hit), oldest first
    distinct_run,        \* history: no set has overwritten a cached key since the cache was empty
    ret,                 \* the last direct API call and what it returned
    inst,                \* the ConnectionPool singleton and the threads constructing it
    nc,                  \* the NoCacheRequestAPI.request calls in progress
    mon,                 \* ListItemMonitorFunctions' ratings queue and the calls draining it
    scrob                \* a PlayerScrobbler and what it has sent

vars == <<cfg, pools, active_connections, closed, next_session, held, cache, timestamps,
          request_times, now, ticks, thr, dispatches, last, pool_hist,
          lru, distinct_run, ret, inst, nc, mon, scrob>>

\* the components outside the request layer's dispatch
extVars == <<inst, nc, mon, scrob>>

\* the service monitor's components
monVars == <<mon, scrob>>

poolVars == <<pools, active_connections, closed, next_session, held, pool_hist>>
cacheVars == <<cache, timestamps, lru, distinct_run>>
threadVars == <<thr, dispatches, last>>

\* everything of the request layer
requestVars == <<cfg, poolVars, cacheVars, request_times, now, ticks, threadVars, ret>>

---------------------------------------------------------------------------
(* Bounds of the model *)

MaxDispatch == 2
MaxTicks == 3
MaxCalls == 3
TicksPerSec == 20
MaxScrobbles == 4

---------------------------------------------------------------------------
(* Optional values: Python's None and a present value *)

None == <<>>
Some(x) == <<x>>
Val(o) == o[1]

Max(a, b) == IF a >= b THEN a ELSE b

SeqMin(s) == CHOOSE x \in {s[i] : i \in DOMAIN s} : \A j \in DOMAIN s : x <= s[j]

RemoveAt(s, i) == SubSeq(s, 1, i - 1) \o SubSeq(s, i + 1, Len(s))

Without(s, x) == SelectSeq(s, LAMBDA e : e # x)

EmptyMap == [x \in {} |-> 0]

DropKey(f, k) == [x \in DOMAIN f \ {k} |-> f[x]]

PutKey(f, k, v) == [x \in DOMAIN f \cup {k} |-> IF x = k THEN v ELSE f[x]]

---------------------------------------------------------------------------
(* Requests *)

Threads == {1, 2}
Hosts == {"h1", "h2"}
Urls == {"u1", "u2", "u3"}

\* urlparse(url).netloc
HostOf(url) == IF url = "u3" THEN "h2" ELSE "h1"

\* method.upper()
Upper(method) ==
    CASE method = "get" -> "GET"
      [] method = "post" -> "POST"
      [] OTHER -> method

\* The params argument: absent, a dict, or a list of (name, value) pairs.  The
\* items are kept in the order in which the caller supplied them.
NoParams == [kind |-> "none", items |-> <<>>]
DictParams(items) == [kind |-> "dict", items |-> items]
ListParams(items) == [kind |-> "list", items |-> items]

\* the parameter names, in the order of Python's string comparison
ParamNames == <<"a", "b">>

\* sorted(params.items()): the names of a dict are distinct, so the items come
\* out by ascending name
RECURSIVE SortedItems(_, _)
SortedItems(items, i) ==
    IF i > Len(ParamNames) THEN <<>>
    ELSE SelectSeq(items, LAMBDA p : p[1] = ParamNames[i]) \o SortedItems(items, i + 1)

\* sep.join(strs)
RECURSIVE JoinStr(_, _)
JoinStr(strs, sep) ==
    IF strs = <<>> THEN ""
    ELSE IF Len(strs) = 1 THEN strs[1]
    ELSE strs[1] \o sep \o JoinStr(Tail(strs), sep)

\* lines 120-123: '&'.join(f"{k}={v}" ...) over the sorted items of a dict,
\* str(params) for anything else; str of a list of pairs of strings is
\* "[('a', '1'), ('b', '2')]"
ParamsStr(params) ==
    IF params.kind = "dict"
    THEN JoinStr([i \in DOMAIN params.items |->
                     SortedItems(params.items, 1)[i][1] \o "=" \o
                     SortedItems(params.items, 1)[i][2]], "&")
    ELSE "[" \o JoinStr([i \in DOMAIN params.items |->
                            "('" \o params.items[i][1] \o "', '" \o
                            params.items[i][2] \o "')"], ", ") \o "]"

\* RequestMemoryCache._generate_key: the string key_data of line 126.  The
\* md5 digest of line 127 is taken to be injective on it, so key_data stands for
\* the key.  'if params' is false for None and for an empty dict or list.
GenerateKey(url, method, params) ==
    IF params.items = <<>>
    THEN JoinStr(<<Upper(method), url>>, "|")
    ELSE JoinStr(<<Upper(method), url, "params:" \o ParamsStr(params)>>, "|")

Request(url, method, stream) == [url |-> url, method |-> method, stream |-> stream]

Requests ==
    { Request("u1", "GET", FALSE), Request("u2", "GET", FALSE),
      Request("u1", "POST", FALSE), Request("u1", "GET", TRUE) }

KeyOf(r) == GenerateKey(r.url, r.method, NoParams)

CacheableAnyMethod(r, conf) == ~r.stream /\ conf.use_memory_cache

CacheableAnySetting(r, conf) == r.method = "GET" /\ ~r.stream

\* the condition of lines 281-283 (and of 316, 319, 320)
Cacheable(r, conf) == r.method = "GET" /\ ~r.stream /\ conf.use_memory_cache

---------------------------------------------------------------------------
(* Time *)

Window == 1 * TicksPerSec
Horizon == 60 * TicksPerSec
BurstWait == 1 * TicksPerSec
MinWait == TicksPerSec \div 10

TickSteps == {1, Window - 1, Horizon - 1}

Tick(d) ==
    /\ ticks < MaxTicks
    /\ now' = now + d
    /\ ticks' = ticks + 1
    /\ UNCHANGED <<extVars, cfg, poolVars, cacheVars, request_times, threadVars, ret>>

---------------------------------------------------------------------------
(* RequestMemoryCache *)

CacheKeys(c) == {c[i].key : i \in DOMAIN c}

IndexOf(c, k) == CHOOSE i \in DOMAIN c : c[i].key = k

RemoveKeyEntryOnly(c, ts, k) ==
    [cache |-> SelectSeq(c, LAMBDA e : e.key # k), timestamps |-> ts]

\* RequestMemoryCache._remove_key
RemoveKey(c, ts, k) ==
    [cache |-> SelectSeq(c, LAMBDA e : e.key # k), timestamps |-> DropKey(ts, k)]

\* max_age = ttl or self.default_ttl, in seconds
MaxAge(ttl, conf) ==
    IF ttl = None \/ Val(ttl) = 0 THEN conf.default_ttl ELSE Val(ttl)

\* time.time() - self.timestamps[key] > max_age
Expired(age, max_age) == age > max_age * TicksPerSec

PromoteNever(c, i) == c

\* self.cache.move_to_end(key)
Promote(c, i) == Append(RemoveAt(c, i), c[i])

\* RequestMemoryCache.get
CacheGet(c, ts, key, ttl, t, conf) ==
    IF ~conf.use_memory_cache THEN [cache |-> c, timestamps |-> ts, ret |-> None]
    ELSE IF key \notin CacheKeys(c) THEN [cache |-> c, timestamps |-> ts, ret |-> None]
    ELSE IF Expired(t - ts[key], MaxAge(ttl, conf))
         THEN [cache |-> RemoveKey(c, ts, key).cache,
               timestamps |-> RemoveKey(c, ts, key).timestamps,
               ret |-> None]
    ELSE LET i == IndexOf(c, key)
         IN [cache |-> Promote(c, i), timestamps |-> ts, ret |-> Some(c[i].data)]

\* the loop of lines 160-162; next(iter(self.cache)) raises StopIteration on an
\* empty cache
RECURSIVE EvictOldest(_, _, _)
EvictOldest(c, ts, max_size) ==
    IF Len(c) >= max_size
    THEN IF c = <<>>
         THEN [cache |-> c, timestamps |-> ts, raised |-> TRUE]
         ELSE EvictOldest(RemoveKey(c, ts, c[1].key).cache,
                          RemoveKey(c, ts, c[1].key).timestamps, max_size)
    ELSE [cache |-> c, timestamps |-> ts, raised |-> FALSE]

StoreIfAbsent(c, key, data) ==
    IF key \in CacheKeys(c) THEN c ELSE Append(c, [key |-> key, data |-> data])

\* self.cache[key] = response_data: a key already present keeps its place
Store(c, key, data) ==
    IF key \in CacheKeys(c)
    THEN [c EXCEPT ![IndexOf(c, key)] = [key |-> key, data |-> data]]
    ELSE Append(c, [key |-> key, data |-> data])

\* RequestMemoryCache.set
CacheSet(c, ts, key, data, t, conf) ==
    IF ~conf.use_memory_cache THEN [cache |-> c, timestamps |-> ts, raised |-> FALSE]
    ELSE LET e == EvictOldest(c, ts, conf.max_size)
         IN IF e.raised THEN e
            ELSE [cache |-> Store(e.cache, key, data),
                  timestamps |-> PutKey(e.timestamps, key, t),
                  raised |-> FALSE]

\* history: the order of last access kept beside the cache
LruAfterGet(g, key) ==
    IF g.ret # None THEN Append(Without(lru, key), key)
    ELSE SelectSeq(lru, LAMBDA k : k \in CacheKeys(g.cache))

LruAfterSet(s, key) ==
    IF s.raised \/ key \notin CacheKeys(s.cache)
    THEN SelectSeq(lru, LAMBDA k : k \in CacheKeys(s.cache))
    ELSE Append(SelectSeq(Without(lru, key), LAMBDA k : k \in CacheKeys(s.cache)), key)

ApplyGet(g, key) ==
    /\ cache' = g.cache
    /\ timestamps' = g.timestamps
    /\ lru' = LruAfterGet(g, key)
    /\ distinct_run' = (distinct_run \/ g.cache = <<>>)

ApplySet(s, key) ==
    /\ cache' = s.cache
    /\ timestamps' = s.timestamps
    /\ lru' = LruAfterSet(s, key)
    /\ distinct_run' = ((distinct_run \/ cache = <<>>) /\ key \notin CacheKeys(cache))

CacheClearEntriesOnly ==
    /\ cache' = <<>>
    /\ timestamps' = timestamps
    /\ lru' = <<>>
    /\ distinct_run' = TRUE

\* RequestMemoryCache.clear
CacheClear ==
    /\ cache' = <<>>
    /\ timestamps' = EmptyMap
    /\ lru' = <<>>
    /\ distinct_run' = TRUE

---------------------------------------------------------------------------
(* RateLimiter *)

\* [t for t in self.request_times[host] if t > cutoff_time]
Prune(times, t) == SelectSeq(times, LAMBDA x : x > t - Horizon)

\* [t for t in recent_requests if t > recent_window]
InWindow(times, t) == SelectSeq(times, LAMBDA x : x > t - Window)

SustainedWaitElapsed(win, t) == Max(t - SeqMin(win), MinWait)

\* lines 229-231: the wait until the oldest request of the window leaves it
SustainedWait(win, t) == Max(Window - (t - SeqMin(win)), MinWait)

\* RateLimiter.wait_if_needed; ret is None when the function returns no value
WaitIfNeeded(times, t, conf) ==
    IF conf.requests_per_second <= 0 THEN [times |-> times, ret |-> None]
    ELSE LET recent == Prune(times, t)
             win == InWindow(recent, t)
         IN IF Len(recent) >= conf.burst_limit
            THEN [times |-> recent, ret |-> Some(BurstWait)]
            ELSE IF Len(win) >= conf.requests_per_second
                 THEN [times |-> recent, ret |-> Some(SustainedWait(win, t))]
                 ELSE [times |-> recent, ret |-> Some(0)]

\* RateLimiter.record_request
RecordRequest(times, t) == Append(times, t)

---------------------------------------------------------------------------
(* ConnectionPool *)

\* hasattr(session, '_closed') and not session._closed.  requests.Session is not
\* part of the repository: cfg.closed_attr says whether its objects carry the
\* attribute, and close() is taken to set it.
Usable(s, closed_set, conf) == conf.closed_attr /\ s \notin closed_set

UnderLimitInclusive(active, conf) == active <= conf.max_connections

\* self.active_connections[host] < self.max_connections
UnderLimit(active, conf) == active < conf.max_connections

\* ConnectionPool.get_session.  create_ok is whether building the session
\* (lines 52-67) completes without raising.
GetSession(pool, active, closed_set, next_id, conf, create_ok) ==
    LET popped == pool # <<>>
        s == pool[Len(pool)]
        rest == IF popped THEN SubSeq(pool, 1, Len(pool) - 1) ELSE pool
    IN IF popped /\ Usable(s, closed_set, conf)
       THEN [pool |-> rest, active |-> active, next |-> next_id,
             ret |-> Some(s), created |-> FALSE, failed |-> FALSE]
       ELSE IF UnderLimit(active, conf)
            THEN IF create_ok
                 THEN [pool |-> rest, active |-> active + 1, next |-> next_id + 1,
                       ret |-> Some(next_id), created |-> TRUE, failed |-> FALSE]
                 ELSE [pool |-> rest, active |-> active, next |-> next_id,
                       ret |-> None, created |-> FALSE, failed |-> TRUE]
            ELSE [pool |-> rest, active |-> active, next |-> next_id,
                  ret |-> None, created |-> FALSE, failed |-> FALSE]

\* ConnectionPool.return_session
ReturnSession(pool, closed_set, s, conf) ==
    IF Len(pool) < conf.max_connections /\ Usable(s, closed_set, conf)
    THEN [pool |-> Append(pool, s), closed |-> closed_set]
    ELSE [pool |-> pool, closed |-> closed_set \cup {s}]

---------------------------------------------------------------------------
(* Settings *)

\* The defaults of the settings, scaled down: two connections per host, one
\* cache entry, a TTL of one second, two requests per second, a burst of three.
BaseConfig ==
    [ use_memory_cache |-> TRUE, enable_rate_limiting |-> TRUE,
      use_connection_pool |-> TRUE, max_connections |-> 2, max_size |-> 1,
      default_ttl |-> 1, requests_per_second |-> 2, burst_limit |-> 3,
      closed_attr |-> TRUE ]

DispatchConfigs ==
    { [BaseConfig EXCEPT !.max_connections = 1],
      [BaseConfig EXCEPT !.max_connections = 1, !.closed_attr = FALSE],
      [BaseConfig EXCEPT !.max_size = 0],
      [BaseConfig EXCEPT !.requests_per_second = 0],
      [BaseConfig EXCEPT !.use_memory_cache = FALSE, !.enable_rate_limiting = FALSE,
                         !.use_connection_pool = FALSE] }

CacheConfigs ==
    { [BaseConfig EXCEPT !.max_size = n, !.default_ttl = 2] : n \in {0, 1, 2} }

RateConfigs ==
    { [BaseConfig EXCEPT !.requests_per_second = 0, !.burst_limit = 2],
      [BaseConfig EXCEPT !.requests_per_second = 1, !.burst_limit = 2],
      [BaseConfig EXCEPT !.requests_per_second = 2, !.burst_limit = 3] }

---------------------------------------------------------------------------
(* Initial state *)

\* The locals of one RequestAPI.request call.  The last five fields are history:
\* sends counts the call's network sends, recv is when its response arrived,
\* solo says no other call has been in progress since it started, after is the
\* call that completed just before it started (when that one was the same
\* cacheable request, answered with status 200, and ran alone), and in_ttl says
\* the cache lookup happened less than default_ttl after that response arrived.
\* The fields from reads on are history too: the call's numbers of cache
\* lookups, cache stores, wait_if_needed calls, get_session calls and
\* record_request calls; whether wait_if_needed returned 0; how the pooled and
\* the direct send ended ("none" when not attempted, "ok" for a response, "raise"
\* for an exception); whether a record_request of the call left more timestamps
\* in the trailing second than requests_per_second or more in the trailing
\* minute than burst_limit; whether the handler of lines 330-333 put the
\* session back into the idle list; and, for a call whose _memory_cache.set
\* stored its response, the rank of that set among the sets of the calls in
\* progress (set_no, 0 when there was none) and its time (set_at).
IdleThread ==
    [ pc |-> "idle", call |-> 0, req |-> None, session |-> None, resp |-> None, ct |-> 0,
      wake |-> 0, hit |-> FALSE, raised |-> FALSE,
      sends |-> 0, recv |-> 0, solo |-> FALSE, after |-> None, in_ttl |-> FALSE,
      reads |-> 0, writes |-> 0, waits |-> 0, gets |-> 0, records |-> 0,
      wait0 |-> FALSE, pooled |-> "none", direct |-> "none", over |-> FALSE,
      kept |-> FALSE, set_no |-> 0, set_at |-> 0 ]

\* Per host: sessions handed out by get_session, whether it has returned None
\* at the limit, whether a session construction has raised, whether
\* return_session has been called, whether a session was given back after the
\* limit had been hit and no get_session has followed yet, and whether the
\* get_session following such a return came back with None.
NoHist ==
    [ handed |-> 0, refused |-> FALSE, create_failed |-> FALSE, released |-> FALSE,
      given_back |-> FALSE, late_none |-> FALSE ]

\* ListItemMonitorFunctions after __init__ (listitemtools.py lines 509-510):
\* process_thread is the queue of ratings threads, named by the order in which
\* they were appended, and process_mutex the flag of the drain loop.  pc is each
\* caller's position in start_process_ratings / aquire_process_thread and cur
\* its local process_thread.  History: loop says the caller is inside
\* aquire_process_thread, appended counts the threads queued so far, started
\* is the set of threads on which start() has returned.
NoMonitor ==
    [ process_thread |-> <<>>, process_mutex |-> FALSE,
      pc |-> [t \in Threads |-> "idle"], cur |-> [t \in Threads |-> 0],
      loop |-> [t \in Threads |-> FALSE], appended |-> 0, started |-> {} ]

\* No PlayerScrobbler has been constructed yet.  The first fields are the
\* attributes set by __init__ (scrobbler.py lines 20-41); last_rated is the
\* window property Scrobbler.LastRated.ContentID.  History: sent is the list of
\* scrobbles posted, watched, rated and stats count the other stop actions,
\* stop_runs the runs of the stop actions, match_starts the starts that
\* matched, calls the calls made and late those made after stopped was set.
NoScrobbler ==
    [ constructed |-> FALSE, current_time |-> 0, total_time |-> 0,
      tmdb_id |-> 0, tmdb_type |-> "", season |-> 0, episode |-> 0,
      stopped |-> FALSE, started |-> FALSE,
      content_id |-> None, trakt_item |-> None,
      auth_checked |-> FALSE, is_authorized |-> FALSE,
      last_rated |-> None,
      sent |-> <<>>, watched |-> 0, rated |-> 0, stats |-> 0,
      stop_runs |-> 0, match_starts |-> 0, calls |-> 0, late |-> 0 ]

\* ConnectionPool before any thread has constructed it: the class attribute
\* _instance is None (line 19), the class lock is free (line 20).  instance is
\* cls._instance, initialized the instance's _initialized attribute ("absent"
\* until line 27 sets it), lock the thread inside `with cls._lock`, pc each
\* thread's position in ConnectionPool(), mine the object each thread got.
\* History: bodies counts the runs of the body of __init__ (lines 34-38), used
\* says a thread has called get_session on the instance, and reset_after_use
\* that a body ran after that.
NoInst ==
    [ instance |-> None, initialized |-> "absent", lock |-> 0,
      pc |-> [t \in Threads |-> "idle"], mine |-> [t \in Threads |-> None],
      created |-> 0, bodies |-> 0, used |-> FALSE, reset_after_use |-> FALSE ]

\* No NoCacheRequestAPI.request is in progress.  patched says whether the
\* plugin module has the _settings_cache that get_setting answers from (line
\* 373), pc is each thread's position in NoCacheRequestAPI.request, original
\* its local original_setting.  History: before is the use_memory_cache
\* setting when no such call had started yet, calls counts the calls entered.
NoNoCache(conf) ==
    [ patched |-> FALSE, pc |-> [t \in Threads |-> "idle"],
      original |-> [t \in Threads |-> TRUE],
      before |-> conf.use_memory_cache, calls |-> 0 ]

InitRest(configs) ==
    /\ cfg \in configs
    /\ pools = [h \in Hosts |-> <<>>]
    /\ active_connections = [h \in Hosts |-> 0]
    /\ closed = {}
    /\ next_session = 1
    /\ held = {}
    /\ cache = <<>>
    /\ timestamps = EmptyMap
    /\ request_times = [h \in Hosts |-> <<>>]
    /\ now = 0
    /\ ticks = 0
    /\ thr = [t \in Threads |-> IdleThread]
    /\ dispatches = 0
    /\ last = None
    /\ pool_hist = [h \in Hosts |-> NoHist]
    /\ lru = <<>>
    /\ distinct_run = TRUE
    /\ ret = [op |-> "none"]
    /\ inst = NoInst
    /\ mon = NoMonitor
    /\ scrob = NoScrobbler

InitWith(configs) ==
    /\ InitRest(configs)
    /\ nc = NoNoCache(cfg)

---------------------------------------------------------------------------
(* Direct calls of the cache *)

Payloads == {"p1", "p2"}
TtlChoices == {None, Some(0), Some(1)}

\* memory_cache.get(url, 'GET', ttl=ttl)
ApiGet(url, ttl) ==
    LET key == GenerateKey(url, "GET", NoParams)
        g == CacheGet(cache, timestamps, key, ttl, now, cfg)
        present == key \in CacheKeys(cache)
    IN /\ ApplyGet(g, key)
       /\ ret' = [ op |-> "get", key |-> key, ttl |-> ttl, present |-> present,
                   age |-> IF present THEN now - timestamps[key] ELSE 0,
                   result |-> g.ret, cached_after |-> key \in CacheKeys(g.cache) ]
       /\ UNCHANGED <<extVars, cfg, poolVars, request_times, now, ticks, threadVars>>

\* memory_cache.set(url, 'GET', data)
ApiSet(url, data) ==
    LET key == GenerateKey(url, "GET", NoParams)
        s == CacheSet(cache, timestamps, key, data, now, cfg)
        gone == CacheKeys(cache) \ CacheKeys(s.cache)
    IN /\ ApplySet(s, key)
       /\ ret' = [ op |-> "set", key |-> key, raised |-> s.raised,
                   data |-> data, time |-> now,
                   fresh |-> key \notin CacheKeys(cache),
                   stale |-> /\ key \in CacheKeys(cache)
                             /\ Expired(now - timestamps[key], MaxAge(None, cfg)),
                   full |-> Len(cache) = cfg.max_size,
                   distinct |-> distinct_run,
                   evicted |-> gone,
                   evicted_times |-> {timestamps[k] : k \in gone},
                   lru_before |-> IF lru = <<>> THEN None ELSE Some(lru[1]) ]
       /\ UNCHANGED <<extVars, cfg, poolVars, request_times, now, ticks, threadVars>>

\* memory_cache.clear()
ApiClear ==
    /\ CacheClear
    /\ ret' = [op |-> "clear", dropped |-> Len(cache)]
    /\ UNCHANGED <<extVars, cfg, poolVars, request_times, now, ticks, threadVars>>

InitCache == InitWith(CacheConfigs)

NextCache ==
    \/ \E u \in Urls, ttl \in TtlChoices : ApiGet(u, ttl)
    \/ \E u \in Urls, d \in Payloads : ApiSet(u, d)
    \/ ApiClear
    \/ \E d \in {1, Window - 1} : Tick(d)

SpecCache == InitCache /\ [][NextCache]_vars

---------------------------------------------------------------------------
(* Direct calls of the rate limiter *)

\* rate_limiter.wait_if_needed(host)
ApiWait(h) ==
    LET w == WaitIfNeeded(request_times[h], now, cfg)
    IN /\ request_times' = [request_times EXCEPT ![h] = w.times]
       /\ ret' = [ op |-> "wait", host |-> h, before |-> request_times[h],
                   time |-> now, result |-> w.ret ]
       /\ UNCHANGED <<extVars, cfg, poolVars, cacheVars, now, ticks, threadVars>>

Recorded == Len(request_times["h1"]) + Len(request_times["h2"])

\* rate_limiter.record_request(host)
ApiRecord(h) ==
    /\ Recorded < MaxCalls
    /\ request_times' = [request_times EXCEPT ![h] = RecordRequest(request_times[h], now)]
    /\ ret' = [op |-> "record", host |-> h]
    /\ UNCHANGED <<extVars, cfg, poolVars, cacheVars, now, ticks, threadVars>>

InitRate == InitWith(RateConfigs)

NextRate ==
    \/ \E h \in Hosts : ApiWait(h)
    \/ \E h \in Hosts : ApiRecord(h)
    \/ \E d \in TickSteps : Tick(d)

SpecRate == InitRate /\ [][NextRate]_vars

---------------------------------------------------------------------------
(* RequestAPI.request, one step per access to shared state *)

\* what the transport does with a send: a response with status 200, a response
\* with another status, or an exception
Outcomes == {"ok", "error", "raise"}

StatusOf(outcome) == IF outcome = "ok" THEN 200 ELSE 500

\* The response object of a send: which call received it, over which path, and
\* its status.
Response(t, outcome, path) ==
    [call |-> thr[t].call, via |-> path, status |-> StatusOf(outcome)]

Req(t) == Val(thr[t].req)
HostFirst(t) == "h1"

\* host = urlparse(url).netloc, lines 275-276
Host(t) == HostOf(Req(t).url)

Locks == {"limiter_lock", "pool_lock", "cache_lock"}

LocksHeldWhileAsleep(pc) == IF pc = "sleep" THEN {"limiter_lock"} ELSE {}

\* The locks a call holds while it stands at position pc.  Every `with` block
\* of the three components (lines 42, 79, 136, 158, 174, 210, 237) is entered
\* and left within one step of a call: wait_if_needed leaves its block by the
\* returns at lines 221 and 231, before time.sleep at line 298, and the sends
\* at lines 306 and 336 are made between get_session and return_session,
\* outside both blocks.
LocksHeld(pc) == {}

\* `with lock:` can be entered by thread t: no other call holds the lock
LockFree(t, l) == \A u \in Threads \ {t} : l \notin LocksHeld(thr[u].pc)

\* thread t runs no call
Free(t) == thr[t].pc = "idle" /\ nc.pc[t] = "idle"

\* Calls are anonymous: a new call runs in the first free thread.
FirstFree(t) == Free(t) /\ \A u \in Threads : u < t => ~Free(u)

\* lines 265-276: the call is entered and its locals are set
Enter(t, r) ==
    /\ dispatches < MaxDispatch
    /\ dispatches' = dispatches + 1
    /\ LET alone == \A u \in Threads \ {t} : thr[u].pc = "idle"
           follows == /\ alone
                      /\ last # None
                      /\ Val(last).req = r
       IN thr' = [u \in Threads |->
                    IF u = t
                    THEN [IdleThread EXCEPT !.pc = "lookup", !.req = Some(r),
                                            !.call = dispatches + 1,
                                            !.solo = alone,
                                            !.after = IF follows THEN last ELSE None]
                    ELSE [thr[u] EXCEPT !.solo = FALSE, !.after = None, !.in_ttl = FALSE]]

\* request(url, method=..., stream=...) is called directly
Start(t, r) ==
    /\ FirstFree(t)
    /\ Enter(t, r)
    /\ UNCHANGED <<extVars, cfg, poolVars, cacheVars, request_times, now, ticks, last, ret>>

AfterLookupAlways(found) == "rate"

\* lines 290-292: a cached response is returned at once
AfterLookup(found) == IF found THEN "done" ELSE "rate"

\* lines 281-292: the cache lookup
Lookup(t) ==
    /\ thr[t].pc = "lookup"
    /\ Cacheable(Req(t), cfg) => LockFree(t, "cache_lock")
    /\ LET in_time == /\ thr[t].after # None
                      /\ now - Val(thr[t].after).recv < cfg.default_ttl * TicksPerSec
       IN IF Cacheable(Req(t), cfg)
          THEN LET g == CacheGet(cache, timestamps, KeyOf(Req(t)), None, now, cfg)
               IN /\ ApplyGet(g, KeyOf(Req(t)))
                  /\ thr' = [thr EXCEPT ![t].in_ttl = in_time,
                                        ![t].pc = AfterLookup(g.ret # None),
                                        ![t].hit = g.ret # None,
                                        ![t].resp = g.ret,
                                        ![t].reads = @ + 1]
          ELSE /\ thr' = [thr EXCEPT ![t].pc = "rate"]
               /\ UNCHANGED cacheVars
    /\ UNCHANGED <<extVars, cfg, poolVars, request_times, now, ticks, dispatches, last, ret>>

\* lines 295 and 208: the setting is read and wait_if_needed reads the clock
RateRead(t) ==
    /\ thr[t].pc = "rate"
    /\ thr' = IF cfg.enable_rate_limiting
              THEN [thr EXCEPT ![t].pc = "limiter", ![t].ct = now]
              ELSE [thr EXCEPT ![t].pc = "acquire"]
    /\ UNCHANGED <<extVars, cfg, poolVars, cacheVars, request_times, now, ticks, dispatches,
                   last, ret>>

\* lines 210-233 and 297-298: wait_if_needed under the limiter's lock, then the
\* comparison wait_time > 0, which raises TypeError when wait_if_needed returned
\* no value
Limiter(t) ==
    /\ thr[t].pc = "limiter"
    /\ LockFree(t, "limiter_lock")
    /\ LET w == WaitIfNeeded(request_times[Host(t)], thr[t].ct, cfg)
       IN /\ request_times' = [request_times EXCEPT ![Host(t)] = w.times]
          /\ thr' = IF w.ret = None
                    THEN [thr EXCEPT ![t].pc = "done", ![t].raised = TRUE, ![t].ct = 0,
                                     ![t].waits = @ + 1]
                    ELSE IF Val(w.ret) > 0
                    THEN [thr EXCEPT ![t].pc = "sleep", ![t].wake = now + Val(w.ret),
                                     ![t].ct = 0, ![t].waits = @ + 1]
                    ELSE [thr EXCEPT ![t].pc = "acquire", ![t].ct = 0,
                                     ![t].waits = @ + 1, ![t].wait0 = TRUE]
    /\ UNCHANGED <<extVars, cfg, poolVars, cacheVars, now, ticks, dispatches, last, ret>>

\* time.sleep(wait_time) returns
Wake(t) ==
    /\ thr[t].pc = "sleep"
    /\ now >= thr[t].wake
    /\ thr' = [thr EXCEPT ![t].pc = "acquire", ![t].wake = 0]
    /\ UNCHANGED <<extVars, cfg, poolVars, cacheVars, request_times, now, ticks, dispatches,
                   last, ret>>

\* get_session(h) is called; create_ok is whether building a session would
\* complete.  The history of the host is brought up to date.
PoolGet(h, create_ok) ==
    GetSession(pools[h], active_connections[h], closed, next_session, cfg, create_ok)

ApplyPoolGet(h, g) ==
    LET at_limit == g.ret = None /\ ~g.failed
    IN /\ pools' = [pools EXCEPT ![h] = g.pool]
       /\ active_connections' = [active_connections EXCEPT ![h] = g.active]
       /\ next_session' = g.next
       /\ pool_hist' = [pool_hist EXCEPT
             ![h].handed = IF g.ret # None THEN @ + 1 ELSE @,
             ![h].refused = @ \/ at_limit,
             ![h].create_failed = @ \/ g.failed,
             ![h].given_back = FALSE,
             ![h].late_none = @ \/ (pool_hist[h].given_back /\ at_limit)]
       /\ UNCHANGED closed

\* return_session(h, s) is called
ApplyPoolReturn(h, s) ==
    LET r == ReturnSession(pools[h], closed, s, cfg)
    IN /\ pools' = [pools EXCEPT ![h] = r.pool]
       /\ closed' = r.closed
       /\ pool_hist' = [pool_hist EXCEPT ![h].released = TRUE,
                                         ![h].given_back = pool_hist[h].refused]
       /\ UNCHANGED <<active_connections, next_session>>

\* lines 301-303: get_session under the pool's lock
Acquire(t, create_ok) ==
    /\ thr[t].pc = "acquire"
    /\ cfg.use_connection_pool => LockFree(t, "pool_lock")
    /\ IF cfg.use_connection_pool
       THEN LET g == PoolGet(Host(t), create_ok)
            IN /\ ApplyPoolGet(Host(t), g)
               /\ thr' = [thr EXCEPT ![t].session = g.ret,
                                     ![t].pc = IF g.ret # None THEN "send" ELSE "direct",
                                     ![t].gets = @ + 1]
               /\ UNCHANGED held
       ELSE /\ thr' = [thr EXCEPT ![t].pc = "direct"]
            /\ UNCHANGED poolVars
    /\ UNCHANGED <<extVars, cfg, cacheVars, request_times, now, ticks, dispatches, last, ret>>

\* line 306: _make_pooled_request; the transport answers or raises
PooledSend(t, outcome) ==
    /\ thr[t].pc = "send"
    /\ thr' = IF outcome = "raise"
              THEN [thr EXCEPT ![t].pc = "except", ![t].sends = @ + 1,
                               ![t].pooled = "raise"]
              ELSE [thr EXCEPT ![t].pc = "release", ![t].sends = @ + 1, ![t].recv = now,
                               ![t].resp = Some(Response(t, outcome, "pool")),
                               ![t].pooled = "ok"]
    /\ UNCHANGED <<extVars, cfg, poolVars, cacheVars, request_times, now, ticks, dispatches, last, ret>>

\* return_session(host, session) on behalf of thread t
GiveBack(t) ==
    /\ ApplyPoolReturn(Host(t), Val(thr[t].session))
    /\ UNCHANGED held

\* line 309
Release(t) ==
    /\ thr[t].pc = "release"
    /\ LockFree(t, "pool_lock")
    /\ GiveBack(t)
    /\ thr' = [thr EXCEPT ![t].pc = "record"]
    /\ UNCHANGED <<extVars, cfg, cacheVars, request_times, now, ticks, dispatches, last, ret>>

\* History of a record_request: the timestamps of the host, once the call of
\* thread t has added its own, exceed the sustained rate in the trailing second
\* or the burst limit in the trailing minute although wait_if_needed returned 0.
Overrun(t, times) ==
    /\ thr[t].wait0
    /\ \/ Len(InWindow(times, now)) > cfg.requests_per_second
       \/ Len(Prune(times, now)) > cfg.burst_limit

\* if get_setting('enable_rate_limiting'): record_request(host), then control
\* moves to position to
RecordIfEnabled(t, to) ==
    IF cfg.enable_rate_limiting
    THEN LET times == RecordRequest(request_times[Host(t)], now)
         IN /\ request_times' = [request_times EXCEPT ![Host(t)] = times]
            /\ thr' = [thr EXCEPT ![t].pc = to, ![t].records = @ + 1,
                                  ![t].over = @ \/ Overrun(t, times)]
    ELSE /\ thr' = [thr EXCEPT ![t].pc = to]
         /\ UNCHANGED request_times

\* lines 312-313
Record(t) ==
    /\ thr[t].pc = "record"
    /\ cfg.enable_rate_limiting => LockFree(t, "limiter_lock")
    /\ RecordIfEnabled(t, "store")
    /\ UNCHANGED <<extVars, cfg, poolVars, cacheVars, now, ticks, dispatches, last, ret>>

\* history: set has reached lines 164-165
Stored(s, conf) == conf.use_memory_cache /\ ~s.raised

\* history: one more than the rank of every set made by a call in progress
NextSetNo ==
    1 + (CHOOSE n \in {thr[u].set_no : u \in Threads} :
            \A u \in Threads : n >= thr[u].set_no)

\* lines 316-328: the response is cached and returned; an exception of set is
\* caught at line 330
StoreResponse(t) ==
    /\ thr[t].pc = "store"
    /\ (Cacheable(Req(t), cfg) /\ Val(thr[t].resp).status = 200) => LockFree(t, "cache_lock")
    /\ IF Cacheable(Req(t), cfg) /\ Val(thr[t].resp).status = 200
       THEN LET s == CacheSet(cache, timestamps, KeyOf(Req(t)), Val(thr[t].resp), now, cfg)
            IN /\ ApplySet(s, KeyOf(Req(t)))
               /\ thr' = [thr EXCEPT ![t].pc = IF s.raised THEN "except" ELSE "done",
                                     ![t].writes = @ + 1,
                                     ![t].set_no = IF Stored(s, cfg) THEN NextSetNo ELSE @,
                                     ![t].set_at = IF Stored(s, cfg) THEN now ELSE @]
       ELSE /\ thr' = [thr EXCEPT ![t].pc = "done"]
            /\ UNCHANGED cacheVars
    /\ UNCHANGED <<extVars, cfg, poolVars, request_times, now, ticks, dispatches, last, ret>>

\* lines 330-333: the handler of the pooled attempt
Except(t) ==
    /\ thr[t].pc = "except"
    /\ LockFree(t, "pool_lock")
    /\ GiveBack(t)
    /\ thr' = [thr EXCEPT ![t].pc = "direct",
                          ![t].kept = Len(ReturnSession(pools[Host(t)], closed,
                                                        Val(thr[t].session), cfg).pool)
                                      > Len(pools[Host(t)])]
    /\ UNCHANGED <<extVars, cfg, cacheVars, request_times, now, ticks, dispatches, last, ret>>

\* line 336: super().request(); the transport answers or raises, and an
\* exception leaves request()
DirectSend(t, outcome) ==
    /\ thr[t].pc = "direct"
    /\ thr' = IF outcome = "raise"
              THEN [thr EXCEPT ![t].pc = "done", ![t].sends = @ + 1, ![t].raised = TRUE,
                               ![t].resp = None, ![t].direct = "raise"]
              ELSE [thr EXCEPT ![t].pc = "record2", ![t].sends = @ + 1, ![t].recv = now,
                               ![t].resp = Some(Response(t, outcome, "direct")),
                               ![t].direct = "ok"]
    /\ UNCHANGED <<extVars, cfg, poolVars, cacheVars, request_times, now, ticks, dispatches, last, ret>>

\* lines 339-342
Record2(t) ==
    /\ thr[t].pc = "record2"
    /\ cfg.enable_rate_limiting => LockFree(t, "limiter_lock")
    /\ RecordIfEnabled(t, "done")
    /\ UNCHANGED <<extVars, cfg, poolVars, cacheVars, now, ticks, dispatches, last, ret>>

Succeeded(t) ==
    /\ ~thr[t].raised
    /\ thr[t].resp # None
    /\ Val(thr[t].resp).status = 200

\* request() has returned or raised
Return(t) ==
    /\ thr[t].pc = "done"
    /\ last' = IF ~thr[t].solo THEN None
               ELSE IF thr[t].hit
                    THEN (IF thr[t].after # None THEN last ELSE None)
               ELSE IF Succeeded(t) /\ Cacheable(Req(t), cfg)
                    THEN Some([req |-> Req(t), resp |-> Val(thr[t].resp),
                               recv |-> thr[t].recv])
               ELSE None
    /\ thr' = [thr EXCEPT ![t] = IdleThread]

\* a RequestAPI.request called directly returns to its caller
Finish(t) ==
    /\ nc.pc[t] = "idle"
    /\ Return(t)
    /\ UNCHANGED <<extVars, cfg, poolVars, cacheVars, request_times, now, ticks, dispatches, ret>>

\* One second passes.  The steps of a call between two blocking points take no
\* time: the clock advances while every thread is outside request(), asleep in
\* time.sleep or waiting for the transport.
Elapse ==
    /\ \A t \in Threads : thr[t].pc \in {"idle", "sleep", "send", "direct"}
    /\ Tick(Window)

Init == InitWith(DispatchConfigs)

\* the steps of the calls in progress
Steps ==
    \/ \E t \in Threads : Lookup(t)
    \/ \E t \in Threads : RateRead(t)
    \/ \E t \in Threads : Limiter(t)
    \/ \E t \in Threads : Wake(t)
    \/ \E t \in Threads, ok \in BOOLEAN : Acquire(t, ok)
    \/ \E t \in Threads, o \in Outcomes : PooledSend(t, o)
    \/ \E t \in Threads : Release(t)
    \/ \E t \in Threads : Record(t)
    \/ \E t \in Threads : StoreResponse(t)
    \/ \E t \in Threads : Except(t)
    \/ \E t \in Threads, o \in Outcomes : DirectSend(t, o)
    \/ \E t \in Threads : Record2(t)
    \/ \E t \in Threads : Finish(t)
    \/ Elapse

Next ==
    \/ \E t \in Threads, r \in Requests : Start(t, r)
    \/ Steps

Spec == Init /\ [][Next]_vars

---------------------------------------------------------------------------
(* Direct calls of the pool *)

PoolConfigs ==
    { [BaseConfig EXCEPT !.max_connections = m, !.closed_attr = a] :
        m \in {1, 2}, a \in BOOLEAN }

\* connection_pool.get_session(h); the caller keeps the session it receives
ApiGetSession(h, create_ok) ==
    /\ dispatches < MaxCalls
    /\ dispatches' = dispatches + 1
    /\ LET g == PoolGet(h, create_ok)
       IN /\ ApplyPoolGet(h, g)
          /\ held' = IF g.ret # None THEN held \cup {<<h, Val(g.ret)>>} ELSE held
          /\ ret' = [op |-> "get_session", host |-> h, result |-> g.ret]
    /\ UNCHANGED <<extVars, cfg, cacheVars, request_times, now, ticks, thr, last>>

\* connection_pool.return_session(h, s) by the caller that holds s
ApiReturnSession(h, s) ==
    /\ <<h, s>> \in held
    /\ ApplyPoolReturn(h, s)
    /\ held' = held \ {<<h, s>>}
    /\ ret' = [op |-> "return_session", host |-> h, session |-> s]
    /\ UNCHANGED <<extVars, cfg, cacheVars, request_times, now, ticks, threadVars>>

InitPool == InitWith(PoolConfigs)

NextPool ==
    \/ \E h \in Hosts, ok \in BOOLEAN : ApiGetSession(h, ok)
    \/ \E p \in held : ApiReturnSession(p[1], p[2])

SpecPool == InitPool /\ [][NextPool]_vars

---------------------------------------------------------------------------
(* Claims about RequestAPI.request and the pool *)

\* Threads that hold a session of host h: from get_session to the
\* return_session of line 309.
CheckedOut(h) ==
    {t \in Threads : thr[t].pc \in {"send", "release"} /\ Host(t) = h}

HeldBy(t) == Val(thr[t].session)

\* C1: a cacheable request that was answered with status 200 and is repeated at
\* once, before default_ttl has elapsed and with no other call in between, is
\* answered from the cache with the response of the first call and without a
\* network send, whichever path served the first call.  Stated for a cache that
\* can hold an entry (max_size >= 1).
C1_RepeatServedFromCache ==
    \A t \in Threads :
        (thr[t].after # None /\ thr[t].in_ttl /\ cfg.max_size >= 1) =>
            /\ thr[t].hit
            /\ thr[t].resp = Some(Val(thr[t].after).resp)
            /\ thr[t].sends = 0

\* C2 as claimed: as long as no session of a host has been released, get_session
\* hands out at most max_connections sessions, and any call that receives None
\* does so only when max_connections sessions have been handed out.
C2_ExactlyMaxOriginal ==
    \A h \in Hosts :
        ~pool_hist[h].released =>
            /\ pool_hist[h].handed <= cfg.max_connections
            /\ (pool_hist[h].refused \/ pool_hist[h].create_failed) =>
                   pool_hist[h].handed = cfg.max_connections

\* C2: as long as no session of a host has been released and no session
\* construction has raised, get_session hands out at most max_connections
\* sessions, and it returns None only when max_connections sessions have been
\* handed out.
C2_ExactlyMax ==
    \A h \in Hosts :
        (~pool_hist[h].released /\ ~pool_hist[h].create_failed) =>
            /\ pool_hist[h].handed <= cfg.max_connections
            /\ pool_hist[h].refused => pool_hist[h].handed = cfg.max_connections

C2_Witness ==
    \E h \in Hosts :
        /\ ~pool_hist[h].released
        /\ ~pool_hist[h].create_failed
        /\ pool_hist[h].refused
        /\ pool_hist[h].handed = cfg.max_connections
        /\ ret.op = "get_session" /\ ret.host = h /\ ret.result = None

\* C3: once a session has been given back to a host whose limit had been hit,
\* the next get_session for that host does not return None at the limit.
C3_ReleaseEndsExhaustion ==
    \A h \in Hosts : ~pool_hist[h].late_none

---------------------------------------------------------------------------
(* Claims about the cache *)

\* the TTL a lookup was made with: the override, else the default
LookupTtl(ttl) == IF ttl = None THEN cfg.default_ttl ELSE Val(ttl)

\* C6: a lookup with a TTL of T > 0 seconds of an entry whose age is T seconds
\* or more is a miss, the age of exactly T included.
C6_MissFromTtlOn ==
    ( /\ ret.op = "get"
      /\ ret.present
      /\ LookupTtl(ret.ttl) > 0
      /\ ret.age >= LookupTtl(ret.ttl) * TicksPerSec )
    => ret.result = None

\* C7: a lookup with a TTL override, 0 included, of an entry older than the
\* override is a miss and removes the entry.
C7_OverrideDecides ==
    ( /\ ret.op = "get"
      /\ ret.ttl # None
      /\ ret.present
      /\ ret.age > Val(ret.ttl) * TicksPerSec )
    => (ret.result = None /\ ~ret.cached_after)

\* the case of C8: a fingerprint that is not cached is set on a cache that holds
\* max_size >= 1 entries, after sets of fingerprints that were not cached
C8_Case ==
    /\ ret.op = "set"
    /\ ret.fresh
    /\ ret.full
    /\ ret.distinct
    /\ cfg.max_size >= 1

\* C8: inserting one more distinct fingerprint into a full cache evicts exactly
\* one entry, the one whose last access (its insertion or its last hit) is the
\* oldest.
C8_EvictsLeastRecentlyUsed ==
    C8_Case => (~ret.raised /\ ret.evicted = {Val(ret.lru_before)})

\* the entry that survives was inserted before the evicted one: a hit protected it
C8_Witness ==
    /\ C8_Case
    /\ \E k \in CacheKeys(cache) \ {ret.key} :
           \A e \in ret.evicted_times : timestamps[k] < e

---------------------------------------------------------------------------
(* Claims about the rate limiter *)

\* C9: when burst_limit requests of a host have been recorded in the last 60
\* seconds, wait_if_needed returns a wait greater than zero.
C9_BurstWaits ==
    ( /\ ret.op = "wait"
      /\ Len(Prune(ret.before, ret.time)) >= cfg.burst_limit )
    => (ret.result # None /\ Val(ret.result) > 0)

\* the case of C10: requests_per_second >= 1 requests of the host lie in the
\* last second and the burst limit is not reached
C10_Case ==
    /\ ret.op = "wait"
    /\ cfg.requests_per_second >= 1
    /\ Len(InWindow(ret.before, ret.time)) >= cfg.requests_per_second
    /\ Len(Prune(ret.before, ret.time)) < cfg.burst_limit

\* C10: in that case wait_if_needed returns at least the time left until the
\* earliest request of the last second is one second old.
C10_SustainedWait ==
    C10_Case =>
        /\ ret.result # None
        /\ Val(ret.result) >=
               Window - (ret.time - SeqMin(InWindow(ret.before, ret.time)))

C10_Witness ==
    /\ C10_Case
    /\ ret.time - SeqMin(InWindow(ret.before, ret.time)) > 0
    /\ Val(ret.result) = Window - (ret.time - SeqMin(InWindow(ret.before, ret.time)))

---------------------------------------------------------------------------
(* RequestAPI.request with requests_per_second = 1 *)

RaceConfigs == { [BaseConfig EXCEPT !.requests_per_second = 1] }

InitRace == InitWith(RaceConfigs)

SpecRace == InitRace /\ [][Next]_vars

\* The same calls in a process that has served one request before: a POST to
\* h1 was answered over a pooled session at time 0, so that its session is
\* idle, the host has one active connection and one recorded request, and the
\* cache is empty.  dispatches counts the calls made from then on.
InitBusy ==
    /\ cfg \in RaceConfigs
    /\ pools = [h \in Hosts |-> IF h = "h1" THEN <<1>> ELSE <<>>]
    /\ active_connections = [h \in Hosts |-> IF h = "h1" THEN 1 ELSE 0]
    /\ closed = {}
    /\ next_session = 2
    /\ held = {}
    /\ cache = <<>>
    /\ timestamps = EmptyMap
    /\ request_times = [h \in Hosts |-> IF h = "h1" THEN <<0>> ELSE <<>>]
    /\ now = 0
    /\ ticks = 0
    /\ thr = [t \in Threads |-> IdleThread]
    /\ dispatches = 0
    /\ last = None
    /\ pool_hist = [h \in Hosts |->
                      IF h = "h1" THEN [NoHist EXCEPT !.handed = 1, !.released = TRUE]
                      ELSE NoHist]
    /\ lru = <<>>
    /\ distinct_run = TRUE
    /\ ret = [op |-> "none"]
    /\ inst = NoInst
    /\ mon = NoMonitor
    /\ scrob = NoScrobbler
    /\ nc = NoNoCache(cfg)

SpecBusy == InitBusy /\ [][Next]_vars

\* Calls for two hosts: u1 is served by h1 and u3 by h2
HostRequests == { Request("u1", "POST", FALSE), Request("u3", "POST", FALSE) }

NextHosts ==
    \/ \E t \in Threads, r \in HostRequests : Start(t, r)
    \/ Steps

SpecHosts == InitRace /\ [][NextHosts]_vars

---------------------------------------------------------------------------
(* NoCacheRequestAPI.request *)

\* the write of lines 373-375 and 381-382, made when the plugin module has
\* the _settings_cache that get_setting answers from
Patch(conf, value) ==
    IF nc.patched THEN [conf EXCEPT !.use_memory_cache = value] ELSE conf

\* line 369: original_setting = get_setting('use_memory_cache', True).  The
\* calls entered whose super().request() has not been entered yet count
\* towards the bound on dispatches.
NcRead(t) ==
    /\ FirstFree(t)
    /\ dispatches + Cardinality({u \in Threads : nc.pc[u] = "override"}) < MaxDispatch
    /\ nc' = [nc EXCEPT !.pc[t] = "override",
                        !.original[t] = cfg.use_memory_cache,
                        !.calls = @ + 1]
    /\ UNCHANGED <<inst, monVars, cfg, poolVars, cacheVars, request_times, now, ticks,
                   threadVars, ret>>

\* lines 372-378: the setting is overridden and super().request() is entered
NcOverride(t, r) ==
    /\ nc.pc[t] = "override"
    /\ Enter(t, r)
    /\ cfg' = Patch(cfg, FALSE)
    /\ nc' = [nc EXCEPT !.pc[t] = "inner"]
    /\ UNCHANGED <<inst, monVars, poolVars, cacheVars, request_times, now, ticks,
                   last, ret>>

\* lines 379-382: super().request() has returned or raised and the finally
\* block writes original_setting back
NcRestore(t) ==
    /\ nc.pc[t] = "inner"
    /\ Return(t)
    /\ cfg' = Patch(cfg, nc.original[t])
    /\ nc' = [nc EXCEPT !.pc[t] = "idle", !.original[t] = TRUE]
    /\ UNCHANGED <<inst, monVars, poolVars, cacheVars, request_times, now, ticks,
                   dispatches, ret>>

\* the calls made through either class: a plain GET
NoCacheRequests == { Request("u1", "GET", FALSE) }

InitNoCache ==
    /\ InitRest(RaceConfigs)
    /\ nc \in {[NoNoCache(cfg) EXCEPT !.patched = b] : b \in BOOLEAN}

NextNoCache ==
    \/ \E t \in Threads : NcRead(t)
    \/ \E t \in Threads, r \in NoCacheRequests : NcOverride(t, r)
    \/ \E t \in Threads : NcRestore(t)
    \/ \E t \in Threads, r \in NoCacheRequests : Start(t, r)
    \/ Steps

SpecNoCache == InitNoCache /\ [][NextNoCache]_vars

---------------------------------------------------------------------------
(* Claims about the composition in RequestAPI.request *)

\* C11: whatever the interleaving of concurrent calls, a call for which
\* wait_if_needed returned 0 never leaves, by its record_request, more
\* timestamps of the host in the trailing second than requests_per_second, nor
\* more in the trailing 60 seconds than burst_limit.
C11_NoOverrunAfterZeroWait ==
    \A t \in Threads : ~thr[t].over

\* C12: with rate limiting enabled, a call that is not answered from the cache
\* calls record_request exactly once, on the pooled and on the direct path,
\* whether its sends succeeded or failed.  Stated for requests_per_second >= 1
\* and a cache capacity >= 1.
C12_RecordedExactlyOnce ==
    \A t \in Threads :
        ( /\ thr[t].pc = "done"
          /\ ~thr[t].hit
          /\ cfg.enable_rate_limiting
          /\ cfg.requests_per_second >= 1
          /\ cfg.max_size >= 1 )
        => thr[t].records = 1

\* C13: a call answered from the cache returns at once: it sends nothing, calls
\* neither wait_if_needed nor record_request and asks the pool for no session.
C13_HitTouchesNothing ==
    \A t \in Threads :
        thr[t].hit =>
            /\ thr[t].pc = "done"
            /\ thr[t].sends = 0
            /\ thr[t].waits = 0
            /\ thr[t].records = 0
            /\ thr[t].gets = 0
            /\ thr[t].session = None

\* a hit while the host has recorded requests and an idle session
C13_Witness ==
    \E t \in Threads :
        /\ thr[t].hit
        /\ request_times[Host(t)] # <<>>
        /\ pools[Host(t)] # <<>>

\* C14: identical cacheable GET calls made one after the other, the first
\* answered with status 200: only the first reaches the network and the
\* limiter; each later one, made before the entry expires, is a cache hit with
\* the payload of the first, sends nothing and records nothing.  Stated for
\* requests_per_second >= 1 and a cache capacity >= 1.
C14_OnlyFirstCallSends ==
    \A t \in Threads :
        ( /\ thr[t].pc = "done"
          /\ thr[t].after # None
          /\ thr[t].in_ttl
          /\ cfg.requests_per_second >= 1
          /\ cfg.max_size >= 1 )
        => /\ thr[t].hit
           /\ thr[t].sends + thr[t].records = 0

\* pooling, caching and rate limiting are all switched off
AllDisabled ==
    /\ ~cfg.use_connection_pool
    /\ ~cfg.use_memory_cache
    /\ ~cfg.enable_rate_limiting

\* C15: with the three features switched off, a call whose direct send returns
\* a response returns that response after exactly one send, and neither the
\* call nor anything else has touched the pool, the cache or the limiter.
C15_PlainDispatch ==
    \A t \in Threads :
        (AllDisabled /\ thr[t].pc = "done" /\ thr[t].direct = "ok") =>
            /\ ~thr[t].raised
            /\ thr[t].resp # None
            /\ Val(thr[t].resp).call = thr[t].call
            /\ Val(thr[t].resp).via = "direct"
            /\ thr[t].sends = 1
            /\ thr[t].reads + thr[t].writes + thr[t].waits + thr[t].records
                  + thr[t].gets = 0
            /\ cache = <<>>
            /\ \A h \in Hosts : /\ pools[h] = <<>>
                                /\ active_connections[h] = 0
                                /\ request_times[h] = <<>>

\* a cacheable GET answered with status 200 has returned, features off
C15_Witness ==
    \E t \in Threads :
        /\ AllDisabled
        /\ thr[t].pc = "done"
        /\ thr[t].direct = "ok"
        /\ Req(t).method = "GET"
        /\ ~Req(t).stream
        /\ Val(thr[t].resp).status = 200

\* C16: a call to which get_session gave no session makes the direct send and
\* returns its response; and a call raises only when its direct send raised
\* and its pooled send, if there was one, raised too.
C16_FailsOnlyWhenBothFail ==
    \A t \in Threads :
        thr[t].pc = "done" =>
            /\ (thr[t].gets = 1 /\ thr[t].session = None) =>
                   /\ thr[t].direct # "none"
                   /\ thr[t].direct = "ok" =>
                          (~thr[t].raised /\ Val(thr[t].resp).via = "direct")
            /\ thr[t].raised =>
                   (thr[t].direct = "raise" /\ thr[t].pooled # "ok")

---------------------------------------------------------------------------
(* Claims about configured values out of range *)

\* C18: no call of the cache raises, whatever the capacity (0 included): a set
\* that cannot keep its entry returns normally and leaves the cache as it was.
C18_CacheNeverRaises ==
    ret.op = "set" =>
        /\ ~ret.raised
        /\ cfg.max_size <= 0 => (cache = <<>> /\ timestamps = EmptyMap)

\* C19: wait_if_needed returns a duration, zero or more, for every setting of
\* requests_per_second, 0 included.
C19_WaitIsDuration ==
    ret.op = "wait" => (ret.result # None /\ Val(ret.result) >= 0)

\* C20: for every setting of requests_per_second, 0 included, once as many
\* requests of a host as the larger of burst_limit and requests_per_second lie
\* in the last second, wait_if_needed returns a wait greater than zero for it.
C20_LimiterNeverDisabled ==
    ( /\ ret.op = "wait"
      /\ Len(InWindow(ret.before, ret.time))
            >= Max(cfg.burst_limit, cfg.requests_per_second) )
    => (ret.result # None /\ Val(ret.result) > 0)

---------------------------------------------------------------------------
(* Claims about the functions one by one *)

\* C21: wait_if_needed(host) leaves in the host's list the timestamps of the
\* last 60 seconds and nothing else, and returns: one second when at least
\* burst_limit of them remain; otherwise, when at least requests_per_second of
\* them lie in the last second, the larger of 0.1 s and one second minus the age
\* of the oldest of those; otherwise 0.  The value is a number between 0 and
\* one second.
C21_WaitValue ==
    ret.op = "wait" =>
        LET recent == Prune(ret.before, ret.time)
            win == InWindow(recent, ret.time)
            expected ==
                IF Len(recent) >= cfg.burst_limit THEN 1 * TicksPerSec
                ELSE IF Len(win) >= cfg.requests_per_second
                     THEN Max(1 * TicksPerSec - (ret.time - SeqMin(win)),
                              TicksPerSec \div 10)
                     ELSE 0
        IN /\ ret.result # None
           /\ request_times[ret.host] = recent
           /\ ret.result = Some(expected)
           /\ expected >= 0
           /\ expected <= 1 * TicksPerSec

---------------------------------------------------------------------------
(* Direct calls of _generate_key *)

KeyMethods == {"get", "GET", "POST"}
KeyUrls == {"u1", "u2"}
ParamPairs == {<<"a", "1">>, <<"a", "2">>, <<"b", "1">>}

\* no item, one item, or two items with different names in either order
ItemLists ==
    {<<>>} \cup {<<p>> : p \in ParamPairs}
           \cup {pq \in ParamPairs \X ParamPairs : pq[1][1] # pq[2][1]}

ParamChoices ==
    {NoParams} \cup {DictParams(i) : i \in ItemLists} \cup {ListParams(i) : i \in ItemLists}

KeyCall(url, method, params) ==
    [ url |-> url, method |-> method, params |-> params,
      key |-> GenerateKey(url, method, params) ]

\* memory_cache._generate_key(url, method, params); ret keeps this call and the
\* one before it
ApiGenerateKey(url, method, params) ==
    /\ ret' = [ op |-> "key", a |-> KeyCall(url, method, params),
                b |-> IF ret.op = "key" THEN ret.a ELSE KeyCall(url, method, params) ]
    /\ UNCHANGED <<extVars, cfg, poolVars, cacheVars, request_times, now, ticks, threadVars>>

InitKey == InitWith({BaseConfig})

NextKey ==
    \E u \in KeyUrls, m \in KeyMethods, p \in ParamChoices : ApiGenerateKey(u, m, p)

SpecKey == InitKey /\ [][NextKey]_vars

\* the name/value pairs of a params argument, whatever its form and order
PairSet(params) == {params.items[i] : i \in DOMAIN params.items}

SameRequest(a, b) ==
    /\ Upper(a.method) = Upper(b.method)
    /\ a.url = b.url
    /\ PairSet(a.params) = PairSet(b.params)

\* C22: two requests with the same method (whatever the case of its letters),
\* the same URL and the same parameter name/value pairs get the same key,
\* whether the parameters came as a dict or as a list of pairs and in whatever
\* order; two requests that differ in one of the three get different keys.
C22_KeyIsCanonical ==
    ret.op = "key" => (SameRequest(ret.a, ret.b) <=> ret.a.key = ret.b.key)

---------------------------------------------------------------------------
(* Claims about concurrent use of the cache *)

\* two calls of the same cacheable request have both missed the cache and both
\* received a response with status 200; neither has returned yet
C23_Case(t, u) ==
    /\ t # u
    /\ thr[t].pc = "done" /\ thr[u].pc = "done"
    /\ Req(t) = Req(u)
    /\ Req(t).method = "GET" /\ ~Req(t).stream /\ cfg.use_memory_cache
    /\ thr[t].reads = 1 /\ ~thr[t].hit /\ Succeeded(t)
    /\ thr[u].reads = 1 /\ ~thr[u].hit /\ Succeeded(u)
    /\ cfg.max_size >= 1

\* C23: when calls of the same fingerprint miss the cache concurrently, each
\* makes its own send and each stores its own response; when they are done the
\* cache holds one entry for the fingerprint: the response of the call whose
\* set ran last, with the time of that set.
C23_LastWriterWins ==
    \A t, u \in Threads :
        (C23_Case(t, u) /\ thr[t].set_no >= thr[u].set_no) =>
            /\ thr[t].sends >= 1 /\ thr[u].sends >= 1
            /\ thr[t].writes = 1 /\ thr[u].writes = 1
            /\ Len(SelectSeq(cache, LAMBDA e : e.key = KeyOf(Req(t)))) = 1
            /\ cache[IndexOf(cache, KeyOf(Req(t)))].data = Val(thr[t].resp)
            /\ timestamps[KeyOf(Req(t))] = thr[t].set_at

\* C24: clear() leaves no entry and no insertion time, and from then until the
\* next set the cache stays empty and every lookup is a miss.  The calls of
\* get, set and clear run under cache_lock, so calls made by several threads
\* happen in some order, one at a time.
C24_ClearEmpties ==
    /\ [](ret.op = "clear" => (cache = <<>> /\ timestamps = EmptyMap))
    /\ [][ (cache = <<>> /\ timestamps = EmptyMap /\ ret'.op # "set") =>
             /\ cache' = <<>>
             /\ timestamps' = EmptyMap
             /\ ret'.op = "get" => ret'.result = None ]_vars

\* clear() has dropped entries
C24_Witness == ret.op = "clear" /\ ret.dropped > 0

---------------------------------------------------------------------------
(* Claims about what RequestAPI.request stores and sends *)

\* a non-streaming GET while the memory cache is switched on
C25_Eligible(r) == r.method = "GET" /\ ~r.stream /\ cfg.use_memory_cache

\* C25: only a non-streaming GET, with caching switched on, is looked up in
\* the cache or stored in it, and what is stored is a response with status 200.
C25_OnlyGoodGetsCached ==
    /\ \A t \in Threads :
          /\ (thr[t].reads > 0 \/ thr[t].hit \/ thr[t].writes > 0) => C25_Eligible(Req(t))
          /\ (thr[t].writes > 0 /\ thr[t].direct = "none") =>
                 (thr[t].pooled = "ok" /\ Val(thr[t].resp).status = 200)
    /\ \A i \in DOMAIN cache :
          /\ cache[i].data.status = 200
          /\ \E r \in Requests : C25_Eligible(r) /\ cache[i].key = KeyOf(r)

\* a POST or a streaming GET was answered with status 200 over a pooled
\* session, and returns without having been looked up or stored
C25_Witness ==
    \E t \in Threads :
        /\ thr[t].pc = "done"
        /\ cfg.use_memory_cache
        /\ ~C25_Eligible(Req(t))
        /\ thr[t].pooled = "ok"
        /\ Val(thr[t].resp).status = 200
        /\ thr[t].reads + thr[t].writes = 0
        /\ cfg.max_size >= 1

---------------------------------------------------------------------------
(* Claims about the pool's accounting *)

\* C26: for every host, active_connections equals the number of the host's
\* live sessions: those held by a caller plus those in the idle list.
C26_CountEqualsLive ==
    \A h \in Hosts :
        active_connections[h] =
            Cardinality({p \in held : p[1] = h}) + Len(pools[h])

---------------------------------------------------------------------------
\* C27: a call whose pooled send was answered makes no direct send: it sends
\* the request once and returns the pooled response.
C27_NoSecondSend ==
    \A t \in Threads :
        thr[t].pooled = "ok" =>
            /\ thr[t].direct = "none"
            /\ thr[t].sends = 1
            /\ thr[t].pc # "direct"

---------------------------------------------------------------------------
(* Claims about blocking *)

\* thread t is suspended: asleep for the wait, or waiting for the transport
C28_Suspended(t) == thr[t].pc \in {"sleep", "send", "direct"}

\* the next step of thread u, which enters a lock of the limiter, the pool or
\* the cache, can be taken
C28_CanProceed(u) ==
    /\ thr[u].pc = "lookup" => ENABLED Lookup(u)
    /\ thr[u].pc = "limiter" => ENABLED Limiter(u)
    /\ thr[u].pc = "acquire" => ENABLED (\E ok \in BOOLEAN : Acquire(u, ok))
    /\ thr[u].pc = "release" => ENABLED Release(u)
    /\ thr[u].pc = "record" => ENABLED Record(u)
    /\ thr[u].pc = "store" => ENABLED StoreResponse(u)
    /\ thr[u].pc = "except" => ENABLED Except(u)
    /\ thr[u].pc = "record2" => ENABLED Record2(u)

---------------------------------------------------------------------------
(* Claims about overwriting an entry *)

\* C29: a set for a key that is already cached leaves the key cached with the
\* new payload and the time of the set as its insertion time, and a lookup
\* made within the TTL of that time returns the new payload.
C29_SetRenews ==
    (ret.op = "set" /\ ~ret.fresh) =>
        /\ ~ret.raised
        /\ ret.key \in CacheKeys(cache)
        /\ cache[IndexOf(cache, ret.key)].data = ret.data
        /\ timestamps[ret.key] = ret.time
        /\ ~Expired(now - ret.time, MaxAge(None, cfg)) =>
               CacheGet(cache, timestamps, ret.key, None, now, cfg).ret = Some(ret.data)

\* a set has replaced an entry that had outlived the TTL, while another key
\* is cached too
C29_Witness ==
    /\ ret.op = "set"
    /\ ~ret.fresh
    /\ ret.stale
    /\ \E i \in DOMAIN cache : cache[i].key # ret.key

---------------------------------------------------------------------------
(* Claims about the partitioning by host *)

\* the call running in thread t, for a URL of host h, takes a step
C30_StepFor(t, h) ==
    /\ thr[t].req # None
    /\ HostOf(Val(thr[t].req).url) = h
    /\ thr'[t].pc # thr[t].pc

\* C30: the idle list, the active count and the timestamp list of a host
\* change only in a step of a call for that host: get_session,
\* return_session, wait_if_needed and record_request for one host leave those
\* of every other host as they were.
C30_OtherHostsUntouched ==
    [][\A h \in Hosts :
          (\/ pools'[h] # pools[h]
           \/ active_connections'[h] # active_connections[h]
           \/ request_times'[h] # request_times[h])
          => \E t \in Threads : C30_StepFor(t, h)]_vars

\* a call for h2 has passed wait_if_needed, get_session, return_session and
\* record_request while h1 has an idle session, an active connection and a
\* recorded request
C30_Witness ==
    \E t \in Threads :
        /\ thr[t].pc = "done"
        /\ HostOf(Req(t).url) = "h2"
        /\ thr[t].waits = 1 /\ thr[t].gets = 1 /\ thr[t].records = 1
        /\ thr[t].pooled = "ok"
        /\ pools["h1"] # <<>>
        /\ active_connections["h1"] = 1
        /\ request_times["h1"] # <<>>
        /\ request_times["h2"] # <<>>

---------------------------------------------------------------------------
(* Construction of the singletons *)

\* enhance_performance, lines 246-247, and __new__, line 23: a thread whose
\* RequestAPI has no _perf_initialized calls ConnectionPool() and reads
\* cls._instance
NewRead(t) ==
    /\ inst.pc[t] = "idle"
    /\ inst' = [inst EXCEPT !.pc[t] = IF inst.instance = None THEN "lock" ELSE "init"]
    /\ UNCHANGED <<nc, monVars, cfg, poolVars, cacheVars, request_times, now, ticks,
                   threadVars, ret>>

\* lines 24-26: inside the class lock the test is repeated and the instance
\* is created and published
NewCreate(t) ==
    /\ inst.pc[t] = "lock"
    /\ inst.lock = 0
    /\ inst' = IF inst.instance = None
               THEN [inst EXCEPT !.instance = Some(inst.created + 1),
                                 !.created = @ + 1,
                                 !.lock = t, !.pc[t] = "mark"]
               ELSE [inst EXCEPT !.pc[t] = "init"]
    /\ UNCHANGED <<nc, monVars, cfg, poolVars, cacheVars, request_times, now, ticks,
                   threadVars, ret>>

\* line 27: cls._instance._initialized = False, then the lock is released
NewMark(t) ==
    /\ inst.pc[t] = "mark"
    /\ inst' = [inst EXCEPT !.initialized = "no", !.lock = 0, !.pc[t] = "init"]
    /\ UNCHANGED <<nc, monVars, cfg, poolVars, cacheVars, request_times, now, ticks,
                   threadVars, ret>>

\* lines 28 and 31-32: __new__ returns cls._instance and __init__ returns at
\* once when the instance has _initialized set
InitCheck(t) ==
    /\ inst.pc[t] = "init"
    /\ inst' = [inst EXCEPT !.mine[t] = inst.instance,
                            !.pc[t] = IF inst.initialized = "yes" THEN "use" ELSE "body"]
    /\ UNCHANGED <<nc, monVars, cfg, poolVars, cacheVars, request_times, now, ticks,
                   threadVars, ret>>

\* lines 34-37: the body of __init__ gives the instance new, empty maps and a
\* new lock
InitBody(t) ==
    /\ inst.pc[t] = "body"
    /\ pools' = [h \in Hosts |-> <<>>]
    /\ active_connections' = [h \in Hosts |-> 0]
    /\ inst' = [inst EXCEPT !.bodies = @ + 1,
                            !.reset_after_use = @ \/ inst.used,
                            !.pc[t] = "set"]
    /\ UNCHANGED <<nc, monVars, cfg, closed, next_session, held, pool_hist, cacheVars,
                   request_times, now, ticks, threadVars, ret>>

\* line 38: self._initialized = True
InitMark(t) ==
    /\ inst.pc[t] = "set"
    /\ inst' = [inst EXCEPT !.initialized = "yes", !.pc[t] = "use"]
    /\ UNCHANGED <<nc, monVars, cfg, poolVars, cacheVars, request_times, now, ticks,
                   threadVars, ret>>

\* line 302: the thread's request asks the pool it was given for a session
UsePool(t, h, create_ok) ==
    /\ inst.pc[t] = "use"
    /\ LET g == PoolGet(h, create_ok)
       IN /\ ApplyPoolGet(h, g)
          /\ held' = IF g.ret # None THEN held \cup {<<h, Val(g.ret)>>} ELSE held
    /\ inst' = [inst EXCEPT !.used = TRUE, !.pc[t] = "done"]
    /\ UNCHANGED <<nc, monVars, cfg, cacheVars, request_times, now, ticks, threadVars, ret>>

NextSingleton ==
    \/ \E t \in Threads : NewRead(t)
    \/ \E t \in Threads : NewCreate(t)
    \/ \E t \in Threads : NewMark(t)
    \/ \E t \in Threads : InitCheck(t)
    \/ \E t \in Threads : InitBody(t)
    \/ \E t \in Threads : InitMark(t)
    \/ \E t \in Threads, h \in Hosts, ok \in BOOLEAN : UsePool(t, h, ok)

InitSingleton == InitWith(PoolConfigs)

SpecSingleton == InitSingleton /\ [][NextSingleton]_vars

\* C31: the threads that construct ConnectionPool concurrently all get one
\* instance, the body of its __init__ runs once, and never after a thread has
\* begun to use the instance.
C31_InitialisedOnce ==
    /\ inst.created <= 1
    /\ \A t, u \in Threads :
          (inst.mine[t] # None /\ inst.mine[u] # None) => inst.mine[t] = inst.mine[u]
    /\ inst.bodies <= 1
    /\ ~inst.reset_after_use

---------------------------------------------------------------------------
(* Claims about the shape of the cache *)

\* C32: with a capacity of at least 1, the payload map and the insertion-time
\* map have the same keys, each key once, and there are at most max_size
\* entries.
C32_MapsAgree ==
    cfg.max_size >= 1 =>
        /\ CacheKeys(cache) = DOMAIN timestamps
        /\ Cardinality(CacheKeys(cache)) = Len(cache)
        /\ Len(cache) <= cfg.max_size

\* a set into a full cache of two entries has evicted one of them
C32_Witness ==
    /\ ret.op = "set"
    /\ ret.evicted # {}
    /\ cfg.max_size = 2
    /\ Len(cache) = 2

\* C33: a set for a key that is already cached evicts nothing: the cached
\* keys are the same before and after it.
C33_OverwriteEvictsNothing ==
    (ret.op = "set" /\ ~ret.fresh) =>
        /\ ret.evicted = {}
        /\ ret.key \in CacheKeys(cache)

---------------------------------------------------------------------------
(* A cache with room for three entries *)

InitWide == InitWith({ [BaseConfig EXCEPT !.max_size = 3, !.default_ttl = 2] })

NextWide ==
    \/ \E u \in Urls, d \in Payloads : ApiSet(u, d)
    \/ \E u \in Urls : ApiGet(u, None)
    \/ ApiClear

SpecWide == InitWide /\ [][NextWide]_vars

\* C34: after set(k) the entry k is the most recently used one, the last that
\* the eviction loop would remove, also when k was cached before.
C34_SetMakesMostRecent ==
    (ret.op = "set" /\ ~ret.raised) =>
        /\ cache # <<>>
        /\ cache[Len(cache)].key = ret.key

---------------------------------------------------------------------------
(* Claims about NoCacheRequestAPI *)

\* C35: when every NoCacheRequestAPI.request call has returned or raised, the
\* use_memory_cache setting is what it was before the first of them started.
C35_SettingRestored ==
    (\A t \in Threads : nc.pc[t] = "idle") => cfg.use_memory_cache = nc.before

\* C36: a RequestAPI.request called directly for a non-streaming GET, with
\* caching configured on, looks the request up in the cache and stores a
\* pooled response of status 200, whatever NoCacheRequestAPI.request calls
\* are in progress on other threads.
C36_DecisionIsLocal ==
    \A u \in Threads :
        ( /\ thr[u].pc = "done"
          /\ nc.pc[u] = "idle"
          /\ nc.before
          /\ Req(u).method = "GET" /\ ~Req(u).stream )
        => /\ thr[u].reads = 1
           /\ ( /\ thr[u].pooled = "ok"
                /\ thr[u].direct = "none"
                /\ Val(thr[u].resp).status = 200 ) => thr[u].writes = 1

---------------------------------------------------------------------------
(* One caller at a time *)

\* Single-threaded use: request() is called again only when the previous call
\* has returned, so each call sleeps for the wait it was given (line 298),
\* sends, and records before the next one asks the limiter.
SerialStart(t, r) ==
    /\ \A u \in Threads : Free(u)
    /\ Start(t, r)

InitSerial ==
    InitWith({ [BaseConfig EXCEPT !.requests_per_second = n, !.burst_limit = b] :
                   n \in {1, 2}, b \in {1, 2} })

NextSerial ==
    \/ \E t \in Threads, r \in {Request("u1", "POST", FALSE), Request("u1", "GET", FALSE)} :
          SerialStart(t, r)
    \/ Steps

SpecSerial == InitSerial /\ [][NextSerial]_vars

\* C37: with one caller at a time, the requests recorded for a host in the 60
\* seconds up to now are never more than burst_limit.
C37_BurstHolds ==
    \A h \in Hosts : Len(Prune(request_times[h], now)) <= cfg.burst_limit

---------------------------------------------------------------------------
(* The ratings queue of the list item monitor (monitor/listitemtools.py) *)

\* Each caller is a SafeThread started by finalise (lines 436-438) that runs
\* start_process_ratings; the callers share the queue and the flag of one
\* ListItemMonitorFunctions (lines 401-411).

\* lines 363-371: the call returns at once when ratings are disabled or the
\* finaliser is in high-load mode; otherwise a new ratings thread is appended
RatingsAppend(t, enabled, high_load) ==
    /\ mon.pc[t] = "idle"
    /\ mon.appended < MaxCalls
    /\ mon' = IF ~enabled \/ high_load
              THEN mon
              ELSE [mon EXCEPT !.process_thread = Append(@, mon.appended + 1),
                               !.appended = @ + 1,
                               !.pc[t] = "check"]
    /\ UNCHANGED <<inst, nc, scrob, requestVars>>

\* lines 372-374: with the flag set the call returns, leaving the thread to the
\* running loop; otherwise it calls aquire_process_thread
RatingsCheck(t) ==
    /\ mon.pc[t] = "check"
    /\ mon' = [mon EXCEPT !.pc[t] = IF mon.process_mutex THEN "idle" ELSE "acquire"]
    /\ UNCHANGED <<inst, nc, scrob, requestVars>>

\* line 379: self.process_mutex = True
AcquireMutex(t) ==
    /\ mon.pc[t] = "acquire"
    /\ mon' = [mon EXCEPT !.process_mutex = TRUE, !.loop[t] = TRUE, !.pc[t] = "pop"]
    /\ UNCHANGED <<inst, nc, scrob, requestVars>>

\* lines 382-383: pop(0), which raises IndexError on an empty queue
AcquirePop(t) ==
    /\ mon.pc[t] = "pop"
    /\ mon' = IF mon.process_thread = <<>>
              THEN [mon EXCEPT !.pc[t] = "clear"]
              ELSE [mon EXCEPT !.cur[t] = Head(mon.process_thread),
                               !.process_thread = Tail(@),
                               !.pc[t] = "start"]
    /\ UNCHANGED <<inst, nc, scrob, requestVars>>

\* lines 384-385: the queue was empty: the flag is cleared and the loop returns
AcquireClear(t) ==
    /\ mon.pc[t] = "clear"
    /\ mon' = [mon EXCEPT !.process_mutex = FALSE, !.loop[t] = FALSE, !.pc[t] = "idle"]
    /\ UNCHANGED <<inst, nc, scrob, requestVars>>

\* line 387: process_thread.start(); ok is whether the thread could be started
AcquireStart(t, ok) ==
    /\ mon.pc[t] = "start"
    /\ mon' = IF ok
              THEN [mon EXCEPT !.started = @ \cup {mon.cur[t]}, !.pc[t] = "join"]
              ELSE [mon EXCEPT !.pc[t] = "except"]
    /\ UNCHANGED <<inst, nc, scrob, requestVars>>

\* lines 390-396: join returns, because the ratings thread has finished or the
\* timeout has passed, and aquire_process_thread calls itself
AcquireJoin(t) ==
    /\ mon.pc[t] = "join"
    /\ mon' = [mon EXCEPT !.cur[t] = 0, !.pc[t] = "acquire"]
    /\ UNCHANGED <<inst, nc, scrob, requestVars>>

\* lines 397-399: an exception of start() is logged, the flag is cleared and
\* the loop returns
AcquireExcept(t) ==
    /\ mon.pc[t] = "except"
    /\ mon' = [mon EXCEPT !.process_mutex = FALSE, !.loop[t] = FALSE,
                          !.cur[t] = 0, !.pc[t] = "idle"]
    /\ UNCHANGED <<inst, nc, scrob, requestVars>>

NextRatings ==
    \/ \E t \in Threads, enabled, high_load \in BOOLEAN : RatingsAppend(t, enabled, high_load)
    \/ \E t \in Threads : RatingsCheck(t)
    \/ \E t \in Threads : AcquireMutex(t)
    \/ \E t \in Threads : AcquirePop(t)
    \/ \E t \in Threads : AcquireClear(t)
    \/ \E t \in Threads, ok \in BOOLEAN : AcquireStart(t, ok)
    \/ \E t \in Threads : AcquireJoin(t)
    \/ \E t \in Threads : AcquireExcept(t)

\* the service monitor has constructed its ListItemMonitorFunctions; no
\* scrobbler exists yet
InitMonitor == InitWith({BaseConfig})

SpecRatings == InitMonitor /\ [][NextRatings]_vars

\* Every call that has begun runs on: the callers are threads of their own,
\* and join returns after its timeout at the latest.  No new call is promised.
SpecRatingsLive ==
    /\ InitMonitor
    /\ [][NextRatings]_vars
    /\ \A t \in Threads :
          WF_vars(\/ RatingsCheck(t)
                  \/ AcquireMutex(t)
                  \/ AcquirePop(t)
                  \/ AcquireClear(t)
                  \/ \E ok \in BOOLEAN : AcquireStart(t, ok)
                  \/ AcquireJoin(t)
                  \/ AcquireExcept(t))

\* C38: at most one caller is inside aquire_process_thread, and at most one
\* has a ratings thread that it is starting or joining.
C38_OneDrainLoop ==
    /\ Cardinality({t \in Threads : mon.loop[t]}) <= 1
    /\ Cardinality({t \in Threads : mon.pc[t] \in {"start", "join"}}) <= 1

C39_Queued(id) == \E i \in DOMAIN mon.process_thread : mon.process_thread[i] = id

\* C39: every ratings thread in the queue is eventually taken from it by a
\* drain loop, with no further call of start_process_ratings.
C39_QueueIsDrained ==
    \A id \in 1..(MaxCalls + 1) : C39_Queued(id) ~> ~C39_Queued(id)

---------------------------------------------------------------------------
(* PlayerScrobbler (monitor/scrobbler.py) *)

\* Times are whole numbers and total_time divides current_time * 100 in the
\* model, so progress is the integer current_time * 100 / total_time.
\* An id of 0 stands for a missing tmdb_id.  Every call out of the class
\* (trakt_api.get_api_request, Kodi's JSON-RPC, sync_item, get_stats) returns.

WATCH_THRESHOLD == 75

\* lines 48-56
GetTmdbType(tmdb_type) ==
    IF tmdb_type = "" THEN ""
    ELSE IF tmdb_type \in {"movie"} THEN "movie"
    ELSE IF tmdb_type \in {"season", "episode", "tv"} THEN "tv"
    ELSE ""

\* the condition of the decorator's wrapper letting the call through, with
\* the stopped flag left out
IsScrobblingIgnoringStopped(s) ==
    s.tmdb_type # "" /\ s.tmdb_id # 0 /\ s.total_time # 0

\* lines 85-90: the decorated method runs unless the scrobbler has stopped or
\* has no item or no duration
IsScrobbling(s) ==
    ~s.stopped /\ s.tmdb_type # "" /\ s.tmdb_id # 0 /\ s.total_time # 0

\* lines 102-107
Progress(s) ==
    IF s.total_time = 0 THEN 0
    ELSE LET p == Max(0, (s.current_time * 100) \div s.total_time)
         IN IF p <= 100 THEN p ELSE 100

\* lines 109-115
IsMatch(s, tmdb_type, tmdb_id) ==
    IF s.tmdb_id # tmdb_id THEN FALSE ELSE s.tmdb_type = tmdb_type

\* lines 93-100: the content id is formatted on first use and kept
ContentId(s) ==
    IF s.content_id = None
    THEN [s EXCEPT !.content_id = Some(<<s.tmdb_type, s.tmdb_id, s.season, s.episode>>)]
    ELSE s

\* lines 133-150: None when the decorator blocks the call, an empty dict for
\* an episode without season and number
BuildTraktItem(s) ==
    IF ~IsScrobbling(s) THEN None
    ELSE IF s.tmdb_type = "tv"
    THEN IF ~(s.season # 0 /\ s.episode # 0)
         THEN Some([kind |-> "empty", progress |-> 0])
         ELSE Some([kind |-> "episode", progress |-> Progress(s)])
    ELSE IF s.tmdb_type = "movie"
    THEN Some([kind |-> "movie", progress |-> Progress(s)])
    ELSE Some([kind |-> "empty", progress |-> 0])

\* lines 126-131: the scrobbler after self.trakt_item has been read
TraktItem(s) ==
    IF s.trakt_item = None THEN [s EXCEPT !.trakt_item = BuildTraktItem(s)] ELSE s

\* lines 64-71: the authorisation is worked out once; auth is the conjunction
\* of the TraktIsAuth property, the trakt_scrobbling setting and
\* trakt_api.is_authorized, and the item is only built when it is true
IsTraktAuthorized(s, auth) ==
    IF s.auth_checked THEN s
    ELSE IF auth
    THEN LET item == TraktItem(s).trakt_item
         IN [TraktItem(s) EXCEPT
                !.is_authorized = item # None /\ Val(item).kind # "empty",
                !.auth_checked = TRUE]
    ELSE [s EXCEPT !.is_authorized = FALSE, !.auth_checked = TRUE]

\* lines 152-168: one scrobble is posted with the current progress
TraktScrobbling(s, method, auth) ==
    IF ~IsScrobbling(s) THEN s
    ELSE LET a == IsTraktAuthorized(s, auth)
         IN IF ~a.is_authorized THEN a
            ELSE IF method \notin {"start", "pause", "stop"} THEN a
            ELSE [TraktItem(a) EXCEPT
                     !.sent = Append(@, [method |-> method, progress |-> Progress(a)])]

\* lines 205-209, 217-220 and 257-265
HandleWatchedStatus(s) ==
    IF s.current_time # 0 /\ Progress(s) >= WATCH_THRESHOLD /\ IsScrobbling(s)
    THEN [s EXCEPT !.watched = @ + 1]
    ELSE s

\* lines 222-228; rating_on is the conjunction of the two settings
ShouldRateTmdb(s, rating_on) ==
    /\ rating_on
    /\ s.current_time # 0
    /\ Progress(s) >= WATCH_THRESHOLD
    /\ ContentId(s).content_id # s.last_rated

\* lines 211-215 and 240-255
HandleTmdbRatings(s, rating_on) ==
    IF ShouldRateTmdb(s, rating_on) /\ IsScrobbling(s)
    THEN [ContentId(s) EXCEPT !.last_rated = ContentId(s).content_id, !.rated = @ + 1]
    ELSE IF rating_on /\ s.current_time # 0 /\ Progress(s) >= WATCH_THRESHOLD
    THEN ContentId(s)
    ELSE s

\* lines 230-238
UpdateStats(s, auth) ==
    IF ~IsScrobbling(s) THEN s
    ELSE LET a == IsTraktAuthorized(s, auth)
         IN IF a.is_authorized THEN [a EXCEPT !.stats = @ + 1] ELSE a

\* lines 189-203
ScrobblerStop(s, auth, rating_on) ==
    IF ~IsScrobbling(s) THEN s
    ELSE IF ~s.started THEN s
    ELSE LET a == TraktScrobbling(ContentId(s), "stop", auth)
             b == HandleWatchedStatus(a)
             c == HandleTmdbRatings(b, rating_on)
             d == UpdateStats(c, auth)
         IN [d EXCEPT !.stopped = TRUE, !.stop_runs = @ + 1]

\* lines 170-178
ScrobblerStart(s, tmdb_type, tmdb_id, auth, rating_on) ==
    IF ~IsScrobbling(s) THEN s
    ELSE IF ~IsMatch(s, tmdb_type, tmdb_id) THEN ScrobblerStop(s, auth, rating_on)
    ELSE [TraktScrobbling(ContentId(s), "start", auth) EXCEPT
             !.started = TRUE, !.match_starts = @ + 1]

\* lines 180-187
ScrobblerPause(s, tmdb_type, tmdb_id, auth, rating_on) ==
    IF ~IsScrobbling(s) THEN s
    ELSE IF ~IsMatch(s, tmdb_type, tmdb_id) THEN ScrobblerStop(s, auth, rating_on)
    ELSE TraktScrobbling(ContentId(s), "pause", auth)

\* lines 117-124
UpdateTime(s, tmdb_type, tmdb_id, current_time) ==
    IF ~IsScrobbling(s) THEN s
    ELSE IF ~IsMatch(s, tmdb_type, tmdb_id) THEN s
    ELSE [s EXCEPT !.current_time = current_time, !.trakt_item = None]

\* lines 19-41: PlayerScrobbler(trakt_api, total_time) reads the playerstring;
\* last_rated is the content id the window property holds from before
NewScrobbler(total_time, tmdb_type, tmdb_id, numbered, rated_before) ==
    /\ ~scrob.constructed
    /\ LET s == [NoScrobbler EXCEPT
                    !.constructed = TRUE,
                    !.total_time = total_time,
                    !.tmdb_id = tmdb_id,
                    !.tmdb_type = GetTmdbType(tmdb_type),
                    !.season = IF numbered THEN 1 ELSE 0,
                    !.episode = IF numbered THEN 1 ELSE 0]
       IN scrob' = [s EXCEPT !.last_rated =
                       IF rated_before THEN ContentId(s).content_id ELSE None]
    /\ UNCHANGED <<inst, nc, mon, requestVars>>

\* the history of a call: calls and late are counted
Called(s) ==
    [s EXCEPT !.calls = @ + 1, !.late = IF scrob.stopped THEN @ + 1 ELSE @]

CallStart(tmdb_type, tmdb_id, auth, rating_on) ==
    /\ scrob.constructed
    /\ scrob.calls < MaxScrobbles
    /\ scrob' = Called(ScrobblerStart(scrob, tmdb_type, tmdb_id, auth, rating_on))
    /\ UNCHANGED <<inst, nc, mon, requestVars>>

CallPause(tmdb_type, tmdb_id, auth, rating_on) ==
    /\ scrob.constructed
    /\ scrob.calls < MaxScrobbles
    /\ scrob' = Called(ScrobblerPause(scrob, tmdb_type, tmdb_id, auth, rating_on))
    /\ UNCHANGED <<inst, nc, mon, requestVars>>

CallStop(auth, rating_on) ==
    /\ scrob.constructed
    /\ scrob.calls < MaxScrobbles
    /\ scrob' = Called(ScrobblerStop(scrob, auth, rating_on))
    /\ UNCHANGED <<inst, nc, mon, requestVars>>

CallUpdateTime(tmdb_type, tmdb_id, current_time) ==
    /\ scrob.constructed
    /\ scrob.calls < MaxScrobbles
    /\ scrob' = Called(UpdateTime(scrob, tmdb_type, tmdb_id, current_time))
    /\ UNCHANGED <<inst, nc, mon, requestVars>>

\* the player reports a movie or a show with id 1 or 2 and a time of 0, 50 or
\* 80; the playerstring may lack the type or the id, and the duration may be 0
NextScrobbler ==
    \/ \E total_time \in {0, 100}, tmdb_type \in {"", "movie", "episode"},
          tmdb_id \in {0, 1}, numbered, rated_before \in BOOLEAN :
          NewScrobbler(total_time, tmdb_type, tmdb_id, numbered, rated_before)
    \/ \E tmdb_type \in {"movie", "tv"}, tmdb_id \in {1, 2}, auth, rating_on \in BOOLEAN :
          CallStart(tmdb_type, tmdb_id, auth, rating_on)
    \/ \E tmdb_type \in {"movie", "tv"}, tmdb_id \in {1, 2}, auth, rating_on \in BOOLEAN :
          CallPause(tmdb_type, tmdb_id, auth, rating_on)
    \/ \E auth, rating_on \in BOOLEAN : CallStop(auth, rating_on)
    \/ \E tmdb_type \in {"movie", "tv"}, tmdb_id \in {1, 2}, current_time \in {0, 50, 80} :
          CallUpdateTime(tmdb_type, tmdb_id, current_time)

SpecScrobbler == InitMonitor /\ [][NextScrobbler]_vars

\* the scrobbler without the two counters of calls
C40_Visible(s) == [s EXCEPT !.calls = 0, !.late = 0]

====
